---- MODULE Spec2Model ----
(***************************************************************************)
(* A model of the validation engine of typescript-type-validator:         *)
(* the field constructors, the private checkers (_isString ... _isObject, *)
(* _fieldChecker, _objectFieldChecker), Validator.validate and the error   *)
(* classes of error.ts.                                                    *)
(*                                                                         *)
(* The engine is a synchronous recursive function.  Each checker is an     *)
(* operator that yields a completion record                               *)
(*     [thrown, ret, post, trace]                                          *)
(* thrown : <<>> for a normal return, <<e>> when the error e was thrown    *)
(* ret    : the value returned (meaningful when thrown = <<>>)             *)
(* post   : the argument value as it is on the heap after the call (the    *)
(*          engine writes to array slots of the caller's input)            *)
(* trace  : the checks performed, in order, and the entries into and exits  *)
(*          from _objectFieldChecker (instrumentation only)                *)
(* Validator.validate is the state machine: the try body, then the return  *)
(* or the catch block.  Spec explores one static call for every schema,    *)
(* input and options; SpecCalls explores sequences of calls, static and    *)
(* through a Validator instance.                                           *)
(***************************************************************************)
EXTENDS Integers, Sequences, FiniteSets, TLC

VARIABLES
    schema,      \* the Schema argument of the call
    input,       \* the value argument as the caller built it (never written)
    options,     \* the ValidateOptions argument
    heap,        \* the caller's value as it is on the heap now
    pc,          \* "call", "tried", "catch", "done"
    completion,  \* completion of the try body of Validator.validate
    outcome,     \* what reaches the caller: pending, a return or a throw
    handle,      \* the Validator instance built so far: <<>> or <<[schema |-> S]>>
    call,        \* the call as the caller wrote it: [how, schema, obj, options]
    log          \* the calls that returned to the caller, in order

vars == <<schema, input, options, heap, pc, completion, outcome, handle, call, log>>

(***************************************************************************)
(* Dynamic values.  One record shape for every JavaScript value, so that   *)
(* any two values can be compared: t is the runtime tag, s/n/b the payload *)
(* of a string/number/boolean, keys the own enumerable keys of an object   *)
(* in enumeration order and items the values of those keys (or the         *)
(* elements of an array).                                                  *)
(***************************************************************************)
Undefined == [t |-> "undefined", s |-> "", n |-> 0, b |-> FALSE, keys |-> <<>>, items |-> <<>>]

Null == [t |-> "null", s |-> "", n |-> 0, b |-> FALSE, keys |-> <<>>, items |-> <<>>]

Str(s) == [t |-> "string", s |-> s, n |-> 0, b |-> FALSE, keys |-> <<>>, items |-> <<>>]

Num(n) == [t |-> "number", s |-> "", n |-> n, b |-> FALSE, keys |-> <<>>, items |-> <<>>]

Bool(b) == [t |-> "boolean", s |-> "", n |-> 0, b |-> b, keys |-> <<>>, items |-> <<>>]

Arr(items) == [t |-> "array", s |-> "", n |-> 0, b |-> FALSE, keys |-> <<>>, items |-> items]

Obj(keys, items) == [t |-> "object", s |-> "", n |-> 0, b |-> FALSE, keys |-> keys, items |-> items]

\* typeof v
Typeof(v) ==
    CASE v.t = "undefined" -> "undefined"
      [] v.t = "null"      -> "object"
      [] v.t = "string"    -> "string"
      [] v.t = "number"    -> "number"
      [] v.t = "boolean"   -> "boolean"
      [] v.t = "array"     -> "object"
      [] v.t = "object"    -> "object"

\* Array.isArray(v)
IsArray(v) == v.t = "array"

\* Whether Object.keys(v) throws a TypeError (v is null or undefined).
ObjectKeysThrows(v) == v.t \in {"undefined", "null"}

\* Object.keys(v) for a v it does not throw on: the own enumerable string
\* keys; the indices of an array or of a string; none for a number or boolean.
ObjectKeys(v) ==
    CASE v.t = "object" -> v.keys
      [] v.t = "array"  -> [i \in 1..Len(v.items) |-> ToString(i - 1)]
      [] v.t = "string" -> [i \in 1..Len(v.s) |-> ToString(i - 1)]
      [] OTHER          -> <<>>

\* The position of key among the keys of v, 0 when it is not one of them.
IndexOfKey(v, key) ==
    LET ks == ObjectKeys(v)
        hits == {i \in 1..Len(ks) : ks[i] = key}
    IN IF hits = {} THEN 0 ELSE CHOOSE i \in hits : TRUE

\* The lookup yielding null for a key that is not held.
Get_nullWhenMissing(obj, key) ==
    CASE obj.t \in {"object", "array"} /\ IndexOfKey(obj, key) # 0 -> obj.items[IndexOfKey(obj, key)]
      [] OTHER -> Null

\* obj?.[key]: undefined on null and undefined; an own property of an object
\* or an element of an array; the length of an array or string.  (Properties
\* inherited from the prototypes, and the characters of a string, are never
\* named by a schema key of this model.)
Get(obj, key) ==
    CASE obj.t \in {"object", "array"} /\ IndexOfKey(obj, key) # 0 -> obj.items[IndexOfKey(obj, key)]
      [] obj.t = "array" /\ key = "length"  -> Num(Len(obj.items))
      [] obj.t = "string" /\ key = "length" -> Num(Len(obj.s))
      [] OTHER -> Undefined

\* The heap after the value held under key of obj became v: the engine
\* reaches nested values by reference, so what a nested call wrote is seen
\* through the parent.
Put(obj, key, v) ==
    IF obj.t \in {"object", "array"} /\ IndexOfKey(obj, key) # 0
    THEN [obj EXCEPT !.items[IndexOfKey(obj, key)] = v]
    ELSE obj

(***************************************************************************)
(* error.ts: the error classes.  One record shape for every error; value   *)
(* and error are meaningful for the classes that carry them.  The message  *)
(* texts of the classified errors are not modelled.                        *)
(***************************************************************************)
FieldTypeMismatchError(key, type, value) ==
    [class |-> "FieldTypeMismatchError", name |-> "FieldValidationError",
     key |-> key, type |-> type, value |-> value, message |-> "", error |-> <<>>]

FieldNonNullableError(key) ==
    [class |-> "FieldNonNullableError", name |-> "FieldNonNullableError",
     key |-> key, type |-> "", value |-> Undefined, message |-> "", error |-> <<>>]

UnexpectedFieldError(key) ==
    [class |-> "UnexpectedFieldError", name |-> "UnexpectedFieldError",
     key |-> key, type |-> "", value |-> Undefined, message |-> "", error |-> <<>>]

\* new ValidationError(error): wraps the error it is given.
ValidationError(error) ==
    [class |-> "ValidationError", name |-> "ValidationError",
     key |-> "", type |-> "", value |-> Undefined, message |-> "", error |-> <<error>>]

\* new Error(message)
Error(message) ==
    [class |-> "Error", name |-> "Error",
     key |-> "", type |-> "", value |-> Undefined, message |-> message, error |-> <<>>]

\* The TypeError the runtime throws (Object.keys of null or undefined, a
\* property read on undefined).
TypeError(message) ==
    [class |-> "TypeError", name |-> "TypeError",
     key |-> "", type |-> "", value |-> Undefined, message |-> message, error |-> <<>>]

\* The type guard taking every error for a classified one.
isFieldValidationError_any(error) == TRUE

\* The type guard without its third class.
isFieldValidationError_two(error) ==
    \/ error.class = "FieldTypeMismatchError"
    \/ error.class = "FieldNonNullableError"

isFieldValidationError(error) ==
    \/ error.class = "FieldTypeMismatchError"
    \/ error.class = "FieldNonNullableError"
    \/ error.class = "UnexpectedFieldError"

(***************************************************************************)
(* Completions.                                                            *)
(***************************************************************************)
Return(ret, post, trace) == [thrown |-> <<>>, ret |-> ret, post |-> post, trace |-> trace]

Throw(error, post, trace) == [thrown |-> <<error>>, ret |-> Undefined, post |-> post, trace |-> trace]

\* The completion c of a step that ran after the steps recorded in trace.
After(trace, c) == [c EXCEPT !.trace = trace \o @]

\* One entry of the trace: what was done, under which key path, on which value.
Ev(op, key, value) == [op |-> op, key |-> key, value |-> value]

(***************************************************************************)
(* Field constructors.  A field specification is one record shape:         *)
(* schema is <<>> (undefined) or <<S>>, field is <<>> or <<element spec>>, *)
(* resolver is "" (undefined) or the name of a resolver function.  A       *)
(* Schema S is the sequence of its entries [key, spec] in the order        *)
(* Object.keys(schema) enumerates them.                                    *)
(***************************************************************************)
\* { optional: false, ...fieldOptions }: fieldOptions is <<>> ({} or an
\* omitted optional) or <<b>>.
finalOptions(fieldOptions) ==
    [optional |-> IF fieldOptions = <<>> THEN FALSE ELSE fieldOptions[1]]

customField(resolver, fieldOptions) ==
    [fieldOptions |-> finalOptions(fieldOptions), type |-> "Custom",
     schema |-> <<>>, resolver |-> resolver, field |-> <<>>]

field(type, fieldOptions) ==
    [fieldOptions |-> finalOptions(fieldOptions), type |-> type,
     schema |-> <<>>, resolver |-> "", field |-> <<>>]

objectField(s, fieldOptions) ==
    [fieldOptions |-> finalOptions(fieldOptions), type |-> "Object",
     schema |-> <<s>>, resolver |-> "", field |-> <<>>]

arrayField(f, fieldOptions) ==
    [fieldOptions |-> finalOptions(fieldOptions), type |-> "Array",
     schema |-> <<>>, resolver |-> "", field |-> <<f>>]

\* One entry of a Schema literal: key: spec.
Entry(key, spec) == [key |-> key, spec |-> spec]

\* Object.keys(schema)
SchemaKeys(s) == [i \in 1..Len(s) |-> s[i].key]

(***************************************************************************)
(* The checkers.                                                           *)
(***************************************************************************)
RECURSIVE _isArrayLoop(_, _, _, _, _)
RECURSIVE _fieldChecker(_, _, _, _, _)
RECURSIVE _objectFieldChecker(_, _, _, _)
RECURSIVE _objectFieldCheckerLoop(_, _, _, _, _)

\* _isString returning the string with a character appended.
_isString_appending(val, key) ==
    IF Typeof(val) # "string"
    THEN Throw(FieldTypeMismatchError(key, "String", val), val, <<>>)
    ELSE Return(Str(val.s \o "x"), val, <<>>)

_isString(val, key) ==
    IF Typeof(val) # "string"
    THEN Throw(FieldTypeMismatchError(key, "String", val), val, <<>>)
    ELSE Return(val, val, <<>>)

\* _isNumber with a truthiness test in place of the typeof test: 0 is refused.
_isNumber_truthy(val, key) ==
    IF Typeof(val) # "number" \/ val.n = 0
    THEN Throw(FieldTypeMismatchError(key, "Number", val), val, <<>>)
    ELSE Return(val, val, <<>>)

_isNumber(val, key) ==
    IF Typeof(val) # "number"
    THEN Throw(FieldTypeMismatchError(key, "Number", val), val, <<>>)
    ELSE Return(val, val, <<>>)

\* _isBool taking the numbers 0 and 1 for booleans.
_isBool_zeroOne(val, key) ==
    IF Typeof(val) # "boolean" /\ ~(Typeof(val) = "number" /\ val.n \in {0, 1})
    THEN Throw(FieldTypeMismatchError(key, "Bool", val), val, <<>>)
    ELSE Return(val, val, <<>>)

_isBool(val, key) ==
    IF Typeof(val) # "boolean"
    THEN Throw(FieldTypeMismatchError(key, "Bool", val), val, <<>>)
    ELSE Return(val, val, <<>>)

\* The callback without its return: every element check yields undefined.
_isArrayNext_void(o, index, key, elementField, strict) ==
    LET k == key \o "[" \o ToString(index) \o "]"
        c == IF elementField = <<>>
             THEN Throw(TypeError("Cannot read properties of undefined (reading 'type')"), o, <<>>)
             ELSE _fieldChecker(o, k, elementField[1].type, strict, elementField[1].schema)
    IN After(<<Ev("element", k, o)>>, [c EXCEPT !.ret = Undefined])

\* The callback with the index counted from 1.
_isArrayNext_oneBased(o, index, key, elementField, strict) ==
    LET k == key \o "[" \o ToString(index + 1) \o "]"
    IN IF elementField = <<>>
       THEN Throw(TypeError("Cannot read properties of undefined (reading 'type')"), o,
                  <<Ev("element", k, o)>>)
       ELSE After(<<Ev("element", k, o)>>,
                  _fieldChecker(o, k, elementField[1].type, strict, elementField[1].schema))

\* The callback _objectFieldChecker hands to _isArray:
\*   (o, index) => _fieldChecker(o, `${_key}[${index}]`, field.type, strict, field.schema)
\* with elementField the schema[key].field it closes over (<<>> when the
\* schema entry has none: reading field.type then throws a TypeError).
_isArrayNext(o, index, key, elementField, strict) ==
    LET k == key \o "[" \o ToString(index) \o "]"
    IN IF elementField = <<>>
       THEN Throw(TypeError("Cannot read properties of undefined (reading 'type')"), o,
                  <<Ev("element", k, o)>>)
       ELSE After(<<Ev("element", k, o)>>,
                  _fieldChecker(o, k, elementField[1].type, strict, elementField[1].schema))

\* The for loop of _isArray from index i (0-based) on: obj[i] = next(obj[i], i).
_isArrayLoop(obj, i, key, elementField, strict) ==
    IF ~(i < Len(obj.items))
    THEN Return(obj, obj, <<>>)
    ELSE LET v == obj.items[i + 1]
             c == _isArrayNext(v, i, key, elementField, strict)
         IN IF c.thrown # <<>>
            THEN Throw(c.thrown[1], [obj EXCEPT !.items[i + 1] = c.post], c.trace)
            ELSE After(c.trace,
                       _isArrayLoop([obj EXCEPT !.items[i + 1] = c.ret], i + 1,
                                    key, elementField, strict))

\* _isArray without its kind test: a value that is no array is handed back
\* as it came.
_isArray_lenient(obj, key, elementField, strict) ==
    IF ~IsArray(obj)
    THEN Return(obj, obj, <<>>)
    ELSE _isArrayLoop(obj, 0, key, elementField, strict)

_isArray(obj, key, elementField, strict) ==
    IF ~IsArray(obj)
    THEN Throw(FieldTypeMismatchError(key, "Array", obj), obj, <<>>)
    ELSE _isArrayLoop(obj, 0, key, elementField, strict)

\* _isObject whose callback leaves strict out: the nested level is walked
\* with the default.
_isObject_lax(obj, key, s, strict) ==
    IF Typeof(obj) # "object"
    THEN Throw(FieldTypeMismatchError(key, "Object", obj), obj, <<>>)
    ELSE _objectFieldChecker(s, obj, <<>>, <<key>>)

\* next is (o) => _objectFieldChecker(schema, o, strict, key), the callback
\* _fieldChecker hands over; s is the nested schema it closes over.
_isObject(obj, key, s, strict) ==
    IF Typeof(obj) # "object"
    THEN Throw(FieldTypeMismatchError(key, "Object", obj), obj, <<>>)
    ELSE _objectFieldChecker(s, obj, <<strict>>, <<key>>)

\* s is schema[key].schema: <<>> when undefined.
_fieldChecker(value, key, type, strict, s) ==
    CASE type = "String" -> _isString(value, key)
      [] type = "Number" -> _isNumber(value, key)
      [] type = "Bool"   -> _isBool(value, key)
      [] type = "Object" ->
            IF s # <<>>
            THEN _isObject(value, key, s[1], strict)
            ELSE Throw(Error("Object type for key " \o key \o " must have a schema defined"),
                       value, <<>>)
      [] OTHER -> Throw(Error("Unknown type for key " \o key), value, <<>>)

\* A resolver function applied to (val, key).  The resolvers are named
\* after what they do:
\*   "identity"      (val) => val
\*   "isEven"        the resolver of the README: throws an Error unless val is
\*                   an even number, then returns val
\*   "constTrue"     the resolver of the tests: () => true
\*   "clone"         returns a copy of val (a new object for an object or an
\*                   array, the same primitive for a primitive)
\*   "throwMismatch" (val, key) => { throw new FieldTypeMismatchError(key, Type.Custom, val) }
ApplyResolver(resolver, val, key) ==
    CASE resolver = "identity" -> Return(val, val, <<>>)
      [] resolver = "isEven" ->
            IF Typeof(val) # "number" \/ val.n % 2 # 0
            THEN Throw(Error("Not an even number under key: " \o key), val, <<>>)
            ELSE Return(val, val, <<>>)
      [] resolver = "constTrue" -> Return(Bool(TRUE), val, <<>>)
      [] resolver = "clone" -> Return(val, val, <<>>)
      [] resolver = "throwMismatch" ->
            Throw(FieldTypeMismatchError(key, "Custom", val), val, <<>>)
      [] OTHER -> Return(val, val, <<>>)

\* Whether the value a resolver returned for val is a newly created object
\* (equal in content to val but another reference).
Fresh(resolver, val) == resolver = "clone" /\ val.t \in {"object", "array"}

\* The comparison always finding the two values identical.
StrictNotEquals_never(result, val, fresh) == FALSE

\* result !== val: primitives compare by value, objects and arrays by
\* reference (fresh: result is another reference than val).
StrictNotEquals(result, val, fresh) ==
    IF val.t \in {"object", "array"} THEN fresh \/ result # val ELSE result # val

\* The optional test never skipping.
Skips_never(fieldOptions, v) == FALSE

\* The optional test skipping null as well.
Skips_nullToo(fieldOptions, v) == fieldOptions.optional = TRUE /\ v \in {Undefined, Null}

\* The test skipping every field that holds undefined, required or not.
Skips_requiredToo(fieldOptions, v) == v = Undefined

\* fieldOptions.optional === true && obj?.[key] === undefined
Skips(fieldOptions, v) == fieldOptions.optional = TRUE /\ v = Undefined

\* unexpectedKeys taken from the last key back.
UnexpectedKeys_reversed(s, obj) ==
    LET expectedKeys == SchemaKeys(s)
        actualKeys == ObjectKeys(obj)
        includes(k) == \E j \in 1..Len(expectedKeys) : expectedKeys[j] = k
        found == SelectSeq(actualKeys, LAMBDA k : ~includes(k))
    IN [i \in 1..Len(found) |-> found[Len(found) + 1 - i]]

\* unexpectedKeys: the keys of obj that are no key of the schema, in the
\* order Object.keys(obj) gives them.
UnexpectedKeys(s, obj) ==
    LET expectedKeys == SchemaKeys(s)
        actualKeys == ObjectKeys(obj)
        includes(k) == \E j \in 1..Len(expectedKeys) : expectedKeys[j] = k
    IN SelectSeq(actualKeys, LAMBDA k : ~includes(k))

\* The key written before the root key.
QualifiedKey_reversed(rootKey, key) ==
    IF rootKey # <<>> /\ rootKey[1] # ""
    THEN key \o "." \o rootKey[1]
    ELSE key

\* The root key dropped.
QualifiedKey_unprefixed(rootKey, key) == key

\* rootKey ? `${rootKey}.${key}` : key, with rootKey <<>> (undefined) or <<r>>:
\* undefined and the empty string are falsy.
QualifiedKey(rootKey, key) ==
    IF rootKey # <<>> /\ rootKey[1] # ""
    THEN rootKey[1] \o "." \o key
    ELSE key

\* The body of the for loop of _objectFieldChecker for the i-th schema key
\* and the rest of the loop after it.
_objectFieldCheckerLoop(s, i, obj, strict, rootKey) ==
    IF i > Len(s)
    THEN Return(obj, obj, <<>>)
    ELSE LET key == s[i].key
             spec == s[i].spec
             type == spec.type
             v == Get(obj, key)
             _key == QualifiedKey(rootKey, key)
             c == CASE type \in {"String", "Number", "Bool", "Object"} ->
                        _fieldChecker(v, _key, type, strict, spec.schema)
                    [] type = "Array" ->
                        _isArray(v, _key, spec.field, strict)
                    [] type = "Custom" ->
                        IF spec.resolver = ""
                        THEN Throw(Error("Resolver for key " \o key \o " must be a function"), v, <<>>)
                        ELSE LET r == ApplyResolver(spec.resolver, v, _key)
                             IN IF r.thrown # <<>>
                                THEN After(<<Ev("resolver", _key, v)>>, r)
                                ELSE IF StrictNotEquals(r.ret, v, Fresh(spec.resolver, v))
                                THEN Throw(Error("Custom resolver for key " \o key
                                                 \o " did not return the origin value, which is not allowed"),
                                           r.post, <<Ev("resolver", _key, v)>>)
                                ELSE Return(r.ret, r.post, <<Ev("resolver", _key, v)>>)
                    [] OTHER ->
                        Throw(Error("Unknown type for schema key " \o key), v, <<>>)
         IN IF Skips(spec.fieldOptions, v)
            THEN _objectFieldCheckerLoop(s, i + 1, obj, strict, rootKey)
            ELSE IF c.thrown # <<>>
            THEN Throw(c.thrown[1], Put(obj, key, c.post), <<Ev("field", _key, v)>> \o c.trace)
            ELSE After(<<Ev("field", _key, v)>> \o c.trace,
                       _objectFieldCheckerLoop(s, i + 1, Put(obj, key, c.post), strict, rootKey))

\* _objectFieldChecker with the strict test moved after the loop over the
\* fields.
_objectFieldChecker_fieldsFirst(s, obj, strict, rootKey) ==
    LET strictly == IF strict = <<>> THEN FALSE ELSE strict[1]
        at == IF rootKey = <<>> THEN "" ELSE rootKey[1]
        c == _objectFieldCheckerLoop(s, 1, obj, strictly, rootKey)
        enter == <<[op |-> "enter", key |-> at, value |-> obj]>>
        leave == <<[op |-> "leave", key |-> at, value |-> obj]>>
        strictStep == <<[op |-> "strict", key |-> at, value |-> obj]>>
    IN IF c.thrown # <<>>
       THEN [c EXCEPT !.trace = enter \o @ \o leave]
       ELSE IF strictly /\ ObjectKeysThrows(obj)
       THEN Throw(TypeError("Cannot convert undefined or null to object"), c.post,
                  enter \o c.trace \o strictStep \o leave)
       ELSE IF strictly /\ Len(UnexpectedKeys(s, obj)) > 0
       THEN Throw(UnexpectedFieldError(UnexpectedKeys(s, obj)[1]), c.post,
                  enter \o c.trace \o strictStep \o leave)
       ELSE [c EXCEPT !.trace = enter \o @ \o (IF strictly THEN strictStep ELSE <<>>) \o leave]

\* The completion c of an activation of _objectFieldChecker, its trace put
\* between the entry into the activation and the exit from it.
Activation(at, obj, c) ==
    [c EXCEPT !.trace = <<Ev("enter", at, obj)>> \o @ \o <<Ev("leave", at, obj)>>]

\* strict is <<>> (the argument is undefined: the default false applies) or
\* <<b>>; rootKey is <<>> (undefined) or <<r>>.
_objectFieldChecker(s, obj, strict, rootKey) ==
    LET strictly == IF strict = <<>> THEN FALSE ELSE strict[1]
        at == IF rootKey = <<>> THEN "" ELSE rootKey[1]
    IN Activation(at, obj,
         IF strictly /\ ObjectKeysThrows(obj)
         THEN Throw(TypeError("Cannot convert undefined or null to object"), obj,
                    <<Ev("strict", at, obj)>>)
         ELSE IF strictly /\ Len(UnexpectedKeys(s, obj)) > 0
         THEN Throw(UnexpectedFieldError(UnexpectedKeys(s, obj)[1]), obj,
                    <<Ev("strict", at, obj)>>)
         ELSE After(IF strictly THEN <<Ev("strict", at, obj)>> ELSE <<>>,
                    _objectFieldCheckerLoop(s, 1, obj, strictly, rootKey)))

_checkObject(obj, s, strict, rootKey) == _objectFieldChecker(s, obj, strict, rootKey)


(***************************************************************************)
(* Validator.validate(schema, obj, options).  options is a record          *)
(* [strict, rootKey], each <<>> when the property (or the whole argument)  *)
(* is left out, <<x>> when it is given.                                    *)
(***************************************************************************)
\* The options with strict defaulting to true.
validateFinalOptions_strictDefault(opts) ==
    [strict |-> IF opts.strict = <<>> THEN TRUE ELSE opts.strict[1],
     rootKey |-> opts.rootKey]

\* { strict: false, ...options }
validateFinalOptions(opts) ==
    [strict |-> IF opts.strict = <<>> THEN FALSE ELSE opts.strict[1],
     rootKey |-> opts.rootKey]

Pending == [status |-> "pending", ret |-> Undefined, thrown |-> <<>>]

\* A call as the caller wrote it: how ("static": Validator.validate(schema,
\* obj, options); "instance": validate(obj, options) on an instance built
\* with schema) and its arguments.
Called(how, s, obj, opts) == [how |-> how, schema |-> s, obj |-> obj, options |-> opts]

Returned(v) == [status |-> "returned", ret |-> v, thrown |-> <<>>]

Thrown(e) == [status |-> "thrown", ret |-> Undefined, thrown |-> <<e>>]

\* The try body leaving the schema emptied behind it.
Try_schemaCleared ==
    /\ pc = "call"
    /\ LET fo == validateFinalOptions(options)
           c == _checkObject(heap, schema, <<fo.strict>>, fo.rootKey)
       IN /\ completion' = c
          /\ heap' = c.post
          /\ pc' = IF c.thrown # <<>> THEN "catch" ELSE "tried"
    /\ schema' = <<>>
    /\ UNCHANGED <<input, options, outcome, handle, call, log>>

\* The try body: _checkObject(obj, (o) => _objectFieldChecker(schema, o,
\* finalOptions.strict, finalOptions.rootKey)).
Try ==
    /\ pc = "call"
    /\ LET fo == validateFinalOptions(options)
           c == _checkObject(heap, schema, <<fo.strict>>, fo.rootKey)
       IN /\ completion' = c
          /\ heap' = c.post
          /\ pc' = IF c.thrown # <<>> THEN "catch" ELSE "tried"
    /\ UNCHANGED <<schema, input, options, outcome, handle, call, log>>

\* return of the try body's value
ReturnValue ==
    /\ pc = "tried"
    /\ outcome' = Returned(completion.ret)
    /\ pc' = "done"
    /\ UNCHANGED <<schema, input, options, heap, completion, handle, call, log>>

\* catch (error): if (isFieldValidationError(error)) throw new ValidationError(error)
CatchWrap ==
    /\ pc = "catch"
    /\ isFieldValidationError(completion.thrown[1])
    /\ outcome' = Thrown(ValidationError(completion.thrown[1]))
    /\ pc' = "done"
    /\ UNCHANGED <<schema, input, options, heap, completion, handle, call, log>>

\* The catch block calling the try body again instead of rethrowing.
CatchRethrow_retry ==
    /\ pc = "catch"
    /\ ~isFieldValidationError(completion.thrown[1])
    /\ pc' = "call"
    /\ UNCHANGED <<schema, input, options, heap, completion, outcome, handle, call, log>>

\* catch (error): throw error
CatchRethrow ==
    /\ pc = "catch"
    /\ ~isFieldValidationError(completion.thrown[1])
    /\ outcome' = Thrown(completion.thrown[1])
    /\ pc' = "done"
    /\ UNCHANGED <<schema, input, options, heap, completion, handle, call, log>>

(***************************************************************************)
(* The calls explored: the schemas of the test suite and of the README,    *)
(* and for each schema the inputs built field by field from valid values,  *)
(* values of another kind, null, and missing keys, with undeclared keys    *)
(* added.                                                                  *)
(***************************************************************************)
MaxArrayLen == 2

MaxExtraKeys == 2

\* test "should validate simple flat objects"
SchemaFlat ==
    <<Entry("a", field("String", <<>>)),
      Entry("b", field("Number", <<TRUE>>)),
      Entry("c", field("Bool", <<>>))>>

\* test "should validate nested objects"
SchemaNested ==
    <<Entry("a", field("String", <<>>)),
      Entry("b", objectField(<<Entry("c", field("Number", <<>>)),
                               Entry("d", field("Bool", <<TRUE>>))>>, <<>>))>>

\* README, "Enhanced Error Context with Root Key"
SchemaDeep ==
    <<Entry("user", objectField(
        <<Entry("profile", objectField(<<Entry("name", field("String", <<>>)),
                                         Entry("age", field("Number", <<>>))>>, <<>>))>>,
        <<>>))>>

\* an array of primitives
SchemaArrayPrim ==
    <<Entry("xs", arrayField(field("String", <<>>), <<>>))>>

\* test "should validate arrays of primitives and objects": the optional
\* array of objects, followed by a required primitive
SchemaArrayObj ==
    <<Entry("b", arrayField(objectField(<<Entry("c", field("Number", <<>>))>>, <<>>), <<TRUE>>)),
      Entry("a", field("String", <<>>))>>

\* an object field whose nested fields are all optional, before a primitive
SchemaOptional ==
    <<Entry("u", objectField(<<Entry("x", field("String", <<TRUE>>))>>, <<>>)),
      Entry("b", field("String", <<>>))>>

\* The resolvers given to customField.
Resolvers == {"identity", "isEven", "constTrue", "clone", "throwMismatch"}

\* README, "Custom Type Field Validation", with resolver r in both fields
SchemaCustom(r) ==
    <<Entry("evenNumber", customField(r, <<>>)),
      Entry("optionalEvenNumber", customField(r, <<TRUE>>))>>

\* the customArray field of the type-inference test: an array of custom fields
SchemaCustomArray(r) ==
    <<Entry("customArray", arrayField(customField(r, <<>>), <<>>))>>

\* the object field c of the type-inference test: custom fields, one of them
\* optional, inside a nested object
SchemaNestedCustom(r) ==
    <<Entry("c", objectField(<<Entry("customField", customField(r, <<>>)),
                               Entry("optionalCustomField", customField(r, <<TRUE>>))>>, <<>>))>>

\* An object field built without its nested schema (schema: undefined).
ObjectFieldNoSchema(fieldOptions) ==
    [fieldOptions |-> finalOptions(fieldOptions), type |-> "Object",
     schema |-> <<>>, resolver |-> "", field |-> <<>>]

\* Malformed schemas (reachable through a cast or from JavaScript): an object
\* field with no nested schema, a field whose type tag is not one of Type,
\* each also as the element of an array.
SchemaNoNested ==
    <<Entry("a", field("String", <<>>)),
      Entry("o", ObjectFieldNoSchema(<<>>))>>

SchemaUnknownKind ==
    <<Entry("k", field("Date", <<TRUE>>)),
      Entry("a", field("String", <<>>))>>

SchemaArrayNoNested ==
    <<Entry("os", arrayField(ObjectFieldNoSchema(<<>>), <<>>))>>

SchemaArrayUnknownKind ==
    <<Entry("ks", arrayField(field("Date", <<>>), <<>>))>>

\* an optional object field, before a required primitive
SchemaOptionalObject ==
    <<Entry("p", objectField(<<Entry("x", field("String", <<>>))>>, <<TRUE>>)),
      Entry("a", field("Bool", <<>>))>>

Schemas ==
    {SchemaFlat, SchemaNested, SchemaDeep, SchemaArrayPrim, SchemaArrayObj, SchemaOptional,
     SchemaOptionalObject}
        \cup {SchemaCustom(r) : r \in Resolvers}
        \cup {SchemaCustomArray(r) : r \in Resolvers}
        \cup {SchemaNestedCustom(r) : r \in {"identity", "isEven"}}
        \cup {SchemaNoNested, SchemaUnknownKind, SchemaArrayNoNested, SchemaArrayUnknownKind}

\* The undeclared keys an input may carry, in the order they are added.
ExtraNames == <<"z", "e", "y", "w">>

\* Object o with its first k undeclared keys added after its own.
WithExtras(o, k) ==
    Obj(o.keys \o SubSeq(ExtraNames, 1, k), o.items \o [i \in 1..k |-> Num(1)])

\* All sequences of length at most n over the set S.
RECURSIVE SeqsUpTo(_, _)
SeqsUpTo(S, n) ==
    IF n = 0 THEN {<<>>}
    ELSE LET shorter == SeqsUpTo(S, n - 1)
         IN shorter \cup {Append(q, x) : q \in {r \in shorter : Len(r) = n - 1}, x \in S}

RECURSIVE ValuesFor(_, _)
RECURSIVE FieldsFrom(_, _, _)

\* The objects that hold, for each key of schema s from the i-th on, either
\* no such key or one of the values offered for its specification.
FieldsFrom(s, i, inArray) ==
    IF i > Len(s) THEN {Obj(<<>>, <<>>)}
    ELSE LET rest == FieldsFrom(s, i + 1, inArray)
         IN rest \cup {Obj(<<s[i].key>> \o r.keys, <<v>> \o r.items) :
                          v \in ValuesFor(s[i].spec, inArray), r \in rest}

\* The values offered for a field of specification spec: values of its kind
\* and values of other kinds (fewer of them for the elements of an array).
ValuesFor(spec, inArray) ==
    CASE spec.type = "String" -> {Str("foo"), Num(5)} \cup (IF inArray THEN {} ELSE {Str(""), Null, Undefined})
      [] spec.type = "Number" -> {Num(1), Str("bad")} \cup (IF inArray THEN {} ELSE {Num(0), Null, Undefined})
      [] spec.type = "Bool"   -> {Bool(TRUE), Num(1)} \cup (IF inArray THEN {} ELSE {Bool(FALSE), Null, Undefined})
      [] spec.type = "Object" /\ spec.schema # <<>> ->
            {WithExtras(o, k) : o \in FieldsFrom(spec.schema[1], 1, inArray), k \in 0..1}
                \cup {Null} \cup (IF inArray THEN {} ELSE {Arr(<<>>), Str("foo"), Undefined})
      [] spec.type = "Object" /\ spec.schema = <<>> ->
            {Obj(<<>>, <<>>), Str("foo")} \cup (IF inArray THEN {} ELSE {Null, Undefined})
      [] spec.type = "Array" /\ spec.field # <<>> ->
            {Arr(q) : q \in SeqsUpTo(ValuesFor(spec.field[1], TRUE), MaxArrayLen)}
                \cup {Null, Obj(<<>>, <<>>), Str("foo"), Undefined}
      [] spec.type = "Custom" ->
            {Num(4), Num(3), Bool(TRUE)}
                \cup (IF inArray THEN {} ELSE {Obj(<<>>, <<>>), Arr(<<>>), Null, Undefined})
      [] OTHER -> {Str("foo")} \cup (IF inArray THEN {} ELSE {Num(5), Undefined})

\* The values passed to validate for schema s.
InputsFor(s) ==
    {WithExtras(o, k) : o \in FieldsFrom(s, 1, FALSE), k \in 0..MaxExtraKeys}
        \cup {Null, Undefined, Arr(<<>>), Str("ab"), Num(5)}

OptionsSet ==
    [strict : {<<>>, <<FALSE>>, <<TRUE>>}, rootKey : {<<>>, <<"">>, <<"request.body">>}]

Init ==
    /\ schema \in Schemas
    /\ input \in InputsFor(schema)
    /\ options \in OptionsSet
    /\ heap = input
    /\ pc = "call"
    /\ completion = Return(Undefined, Undefined, <<>>)
    /\ outcome = Pending
    /\ handle = <<>>
    /\ call = Called("static", schema, input, options)
    /\ log = <<>>

Next == Try \/ ReturnValue \/ CatchWrap \/ CatchRethrow

Spec == Init /\ [][Next]_vars

\* A step of the call: control leaves the program point it is at.  Every
\* program point but "done" has a step: Try and ReturnValue are guarded by
\* their program point alone, CatchWrap and CatchRethrow by the two outcomes
\* of one test.
Runs == pc # "done" /\ pc' \in {"call", "tried", "catch", "done"} /\ pc' # pc

\* The call runs on: validate is synchronous code, no step of it waits.
LiveSpec == Init /\ [][Next]_vars /\ WF_pc(Runs)

(***************************************************************************)
(* Sequences of calls: static calls, and calls through one Validator       *)
(* instance, on a few schemas, inputs and options; each call runs the      *)
(* same try body and catch block as above, and its outcome is logged when  *)
(* control is back with the caller.                                        *)
(***************************************************************************)
MaxCalls == 3

CallSchemas == {SchemaArrayPrim, SchemaCustom("isEven")}

\* Per schema an input that is in order, and one that is not and holds an
\* undeclared key as well.
CallInputs(s) ==
    IF s = SchemaArrayPrim
    THEN {Obj(<<"xs">>, <<Arr(<<Str("foo"), Str("")>>)>>),
          Obj(<<"xs", "z">>, <<Arr(<<Str("foo"), Num(5)>>), Num(1)>>)}
    ELSE {Obj(<<"evenNumber">>, <<Num(4)>>),
          Obj(<<"evenNumber", "z">>, <<Num(3), Num(1)>>)}

CallOptions ==
    {[strict |-> <<>>, rootKey |-> <<>>], [strict |-> <<TRUE>>, rootKey |-> <<"request.body">>]}

InitCalls ==
    /\ schema = <<>>
    /\ input = Undefined
    /\ options = [strict |-> <<>>, rootKey |-> <<>>]
    /\ heap = Undefined
    /\ pc = "idle"
    /\ completion = Return(Undefined, Undefined, <<>>)
    /\ outcome = Pending
    /\ handle = <<>>
    /\ call = Called("static", <<>>, Undefined, [strict |-> <<>>, rootKey |-> <<>>])
    /\ log = <<>>

\* new Validator(schema): this.schema = schema
Construct ==
    /\ pc = "idle"
    /\ handle = <<>>
    /\ \E s \in CallSchemas : handle' = <<[schema |-> s]>>
    /\ UNCHANGED <<schema, input, options, heap, pc, completion, outcome, call, log>>

\* The instance method passing a fixed empty options object on.
instanceValidate_noOptions(this, obj, opts) ==
    [schema |-> this.schema, obj |-> obj, options |-> [strict |-> <<>>, rootKey |-> <<>>]]

\* validate(obj, options) of the instance: the arguments it hands to
\* Validator.validate(this.schema, obj, options).
instanceValidate(this, obj, opts) ==
    [schema |-> this.schema, obj |-> obj, options |-> opts]

\* The static call running with the options of the call before it.
CallStatic_staleOptions ==
    /\ pc = "idle"
    /\ Len(log) < MaxCalls
    /\ \E s \in CallSchemas : \E v \in CallInputs(s) : \E o \in CallOptions :
          /\ call' = Called("static", s, v, o)
          /\ schema' = s
          /\ input' = v
          /\ heap' = v
    /\ pc' = "call"
    /\ outcome' = Pending
    /\ completion' = Return(Undefined, Undefined, <<>>)
    /\ UNCHANGED <<options, handle, log>>

\* The caller calls Validator.validate(s, v, o).
CallStatic ==
    /\ pc = "idle"
    /\ Len(log) < MaxCalls
    /\ \E s \in CallSchemas : \E v \in CallInputs(s) : \E o \in CallOptions :
          /\ call' = Called("static", s, v, o)
          /\ schema' = s
          /\ input' = v
          /\ heap' = v
          /\ options' = o
    /\ pc' = "call"
    /\ outcome' = Pending
    /\ completion' = Return(Undefined, Undefined, <<>>)
    /\ UNCHANGED <<handle, log>>

\* The caller calls validate(v, o) on the instance, which calls
\* Validator.validate(this.schema, v, o).
CallInstance ==
    /\ pc = "idle"
    /\ handle # <<>>
    /\ Len(log) < MaxCalls
    /\ \E v \in CallInputs(handle[1].schema) : \E o \in CallOptions :
          /\ call' = Called("instance", handle[1].schema, v, o)
          /\ schema' = instanceValidate(handle[1], v, o).schema
          /\ input' = instanceValidate(handle[1], v, o).obj
          /\ heap' = instanceValidate(handle[1], v, o).obj
          /\ options' = instanceValidate(handle[1], v, o).options
    /\ pc' = "call"
    /\ outcome' = Pending
    /\ completion' = Return(Undefined, Undefined, <<>>)
    /\ UNCHANGED <<handle, log>>

\* Control is back with the caller, who notes the outcome.
BackToCaller ==
    /\ pc = "done"
    /\ log' = Append(log, [call |-> call, outcome |-> outcome])
    /\ pc' = "idle"
    /\ UNCHANGED <<schema, input, options, heap, completion, outcome, handle, call>>

NextCalls ==
    \/ Construct \/ CallStatic \/ CallInstance
    \/ Try \/ ReturnValue \/ CatchWrap \/ CatchRethrow
    \/ BackToCaller

SpecCalls == InitCalls /\ [][NextCalls]_vars


(***************************************************************************)
(* What the properties below speak of.  These definitions state what a     *)
(* schema asks of a value; they do not use the checkers.                   *)
(***************************************************************************)
Done == pc = "done"

\* The checks of the walk, in the order they were made (the trace without
\* the entries into and exits from _objectFieldChecker).
Steps == SelectSeq(completion.trace, LAMBDA ev : ev.op \notin {"enter", "leave"})

\* The strict setting and the root key of the call.
StrictCall == options.strict = <<TRUE>>

RootPrefix == IF options.rootKey = <<>> THEN "" ELSE options.rootKey[1]

\* prefix and name joined the way a key path is written.
Dot(prefix, name) == IF prefix = "" THEN name ELSE prefix \o "." \o name

Indexed(prefix, i) == prefix \o "[" \o ToString(i) \o "]"

IsPlainObject(v) == v.t = "object"

HasKey(v, k) == \E i \in 1..Len(v.keys) : v.keys[i] = k

ValueOf(v, k) == v.items[CHOOSE i \in 1..Len(v.keys) : v.keys[i] = k]

Declares(s, k) == \E i \in 1..Len(s) : s[i].key = k

\* The keys of object v that schema s does not declare, as a set of positions.
UndeclaredAt(s, v) == {i \in 1..Len(v.keys) : ~Declares(s, v.keys[i])}

RECURSIVE ConformsSpec(_, _, _)
RECURSIVE ConformsSchema(_, _, _)

\* v has the kind spec declares (nested objects and array elements included).
ConformsSpec(spec, v, strictly) ==
    CASE spec.type = "String" -> v.t = "string"
      [] spec.type = "Number" -> v.t = "number"
      [] spec.type = "Bool"   -> v.t = "boolean"
      [] spec.type = "Object" -> spec.schema # <<>> /\ ConformsSchema(spec.schema[1], v, strictly)
      [] spec.type = "Array"  ->
            /\ v.t = "array"
            /\ spec.field # <<>>
            /\ \A i \in 1..Len(v.items) : ConformsSpec(spec.field[1], v.items[i], strictly)
      [] OTHER -> FALSE

\* v is an object that holds every required field of s, each field it holds
\* (with a value other than undefined) has the declared kind, and (strictly)
\* it holds no undeclared key.
ConformsSchema(s, v, strictly) ==
    /\ IsPlainObject(v)
    /\ \A i \in 1..Len(s) :
          IF HasKey(v, s[i].key) /\ ValueOf(v, s[i].key) # Undefined
          THEN ConformsSpec(s[i].spec, ValueOf(v, s[i].key), strictly)
          ELSE s[i].spec.fieldOptions.optional
    /\ strictly => UndeclaredAt(s, v) = {}

\* The field of entry e is in order in object v: held with the declared
\* kind, or optional and not held (or held as undefined).
FieldInOrder(e, v, strictly) ==
    IF HasKey(v, e.key) /\ ValueOf(v, e.key) # Undefined
    THEN ConformsSpec(e.spec, ValueOf(v, e.key), strictly)
    ELSE e.spec.fieldOptions.optional

\* Some value nested in v is an array with at least one element.
RECURSIVE HoldsArray(_)
HoldsArray(v) ==
    \/ v.t = "array" /\ Len(v.items) > 0
    \/ v.t = "object" /\ \E i \in 1..Len(v.items) : HoldsArray(v.items[i])

\* Some value held by v is itself an object.
HoldsObject(v) == v.t = "object" /\ \E i \in 1..Len(v.items) : v.items[i].t = "object"

(***************************************************************************)
(* C1  Round-trip: for every schema and every input that satisfies it      *)
(* (every required field present with the declared kind, nested objects    *)
(* and arrays included; in strict mode no undeclared key), validate        *)
(* returns, and returns a value equal to the input.                        *)
(***************************************************************************)
C1_RoundTrip ==
    (Done /\ ConformsSchema(schema, input, StrictCall)) => outcome = Returned(input)

\* A conforming input with a nested array of elements (resp. a nested
\* object) was validated and returned.
C1_Witness ==
    /\ Done
    /\ ConformsSchema(schema, input, StrictCall)
    /\ HoldsArray(input) \/ HoldsObject(input)
    /\ outcome.status = "returned"


(***************************************************************************)
(* The first fault of an input, read off the schema and the value alone:   *)
(* at each object level the first field (in declaration order) that is not *)
(* in order, in an array the lowest index whose element is not in order.   *)
(* A fault is [key, type, value, kind, viaArray, depth]: the key path      *)
(* written with dots and indices, the declared kind, the offending value,  *)
(* whether it is a leaf ("leaf": a primitive of the wrong kind or missing) *)
(* or a value that should have been an object or an array ("objectKind",   *)
(* "arrayKind"), whether the path runs through an array element, and the   *)
(* number of object levels above the field.  Levels that strict mode       *)
(* refuses for an undeclared key have no fault of this kind.               *)
(***************************************************************************)
Min(S) == CHOOSE x \in S : \A y \in S : x <= y

HeldOrUndefined(v, k) == IF HasKey(v, k) THEN ValueOf(v, k) ELSE Undefined

Fault(key, type, value, kind, viaArray, depth) ==
    [key |-> key, type |-> type, value |-> value, kind |-> kind,
     viaArray |-> viaArray, depth |-> depth]

RECURSIVE FaultsInObject(_, _, _, _, _, _)
RECURSIVE FaultsInValue(_, _, _, _, _, _)

FaultsInObject(s, v, prefix, strictly, viaArray, depth) ==
    IF ~IsPlainObject(v) \/ (strictly /\ UndeclaredAt(s, v) # {})
    THEN {}
    ELSE LET bad == {i \in 1..Len(s) : ~FieldInOrder(s[i], v, strictly)}
         IN IF bad = {} THEN {}
            ELSE FaultsInValue(s[Min(bad)].spec, HeldOrUndefined(v, s[Min(bad)].key),
                               Dot(prefix, s[Min(bad)].key), strictly, viaArray, depth)

FaultsInValue(spec, x, path, strictly, viaArray, depth) ==
    CASE spec.type \in {"String", "Number", "Bool"} ->
            {Fault(path, spec.type, x, "leaf", viaArray, depth)}
      [] spec.type = "Object" /\ spec.schema # <<>> ->
            IF IsPlainObject(x)
            THEN FaultsInObject(spec.schema[1], x, path, strictly, viaArray, depth + 1)
            ELSE {Fault(path, "Object", x, "objectKind", viaArray, depth)}
      [] spec.type = "Array" /\ spec.field # <<>> ->
            IF x.t # "array"
            THEN {Fault(path, "Array", x, "arrayKind", viaArray, depth)}
            ELSE LET bad == {j \in 1..Len(x.items) : ~ConformsSpec(spec.field[1], x.items[j], strictly)}
                 IN IF bad = {} THEN {}
                    ELSE FaultsInValue(spec.field[1], x.items[Min(bad)],
                                       Indexed(path, Min(bad) - 1), strictly, TRUE, depth)
      [] OTHER -> {}

\* The first fault of the call's input (at most one).
FirstFaults == FaultsInObject(schema, input, RootPrefix, StrictCall, FALSE, 0)

\* The error that reaches the caller is a ValidationError around e.
Wraps(e) == outcome = Thrown(ValidationError(e))

\* The classified error inside the ValidationError that reached the caller.
Inner == outcome.thrown[1].error[1]

ThrewValidationError ==
    /\ outcome.status = "thrown"
    /\ outcome.thrown[1].class = "ValidationError"

\* String s starts with p.
StartsWith(str, p) == Len(str) >= Len(p) /\ SubSeq(str, 1, Len(p)) = p

\* Key path k names the field whose own path is p: it is p, or continues p
\* with a nested field or an index.
Names(k, p) == k = p \/ StartsWith(k, p \o ".") \/ StartsWith(k, p \o "[")

Required(e) == ~e.spec.fieldOptions.optional

\* Schema s is well-formed and has no custom field: primitive fields, object
\* fields with a nested schema of this kind, arrays of such fields.
RECURSIVE PlainSpec(_)
RECURSIVE PlainSchema(_)
PlainSpec(spec) ==
    CASE spec.type \in {"String", "Number", "Bool"} -> TRUE
      [] spec.type = "Object" -> spec.schema # <<>> /\ PlainSchema(spec.schema[1])
      [] spec.type = "Array"  -> spec.field # <<>> /\ PlainSpec(spec.field[1])
      [] OTHER -> FALSE

PlainSchema(s) == \A i \in 1..Len(s) : PlainSpec(s[i].spec)

(***************************************************************************)
(* C2  Fail-fast, first-field-wins: when two required fields declared in   *)
(* the order (a, b) at the same object level are both invalid in the       *)
(* input (a being the first invalid field of the level, and strict mode    *)
(* finding no undeclared key there), validate reports one error whose key  *)
(* path names a, never b.                                                  *)
(***************************************************************************)
C2_FirstFieldWins ==
    \A i, j \in 1..Len(schema) :
        ( /\ Done
          /\ PlainSchema(schema)
          /\ IsPlainObject(input)
          /\ ~(StrictCall /\ UndeclaredAt(schema, input) # {})
          /\ i < j
          /\ Required(schema[i]) /\ Required(schema[j])
          /\ ~FieldInOrder(schema[i], input, StrictCall)
          /\ ~FieldInOrder(schema[j], input, StrictCall)
          /\ \A k \in 1..(i - 1) : FieldInOrder(schema[k], input, StrictCall) )
        => /\ ThrewValidationError
           /\ Names(Inner.key, Dot(RootPrefix, schema[i].key))
           /\ ~Names(Inner.key, Dot(RootPrefix, schema[j].key))

(***************************************************************************)
(* C3  In strict mode, when the input object has keys the schema does not  *)
(* declare, validate fails with a ValidationError wrapping an              *)
(* UnexpectedFieldError that names the first such key in the input's own   *)
(* enumeration order.  (Without a root key the error key is that key; with *)
(* one it is that key, bare or qualified: C4 is about which.)              *)
(***************************************************************************)
FirstUndeclared == input.keys[Min(UndeclaredAt(schema, input))]

C3_StrictFirstUnexpected ==
    (Done /\ StrictCall /\ IsPlainObject(input) /\ UndeclaredAt(schema, input) # {})
    => /\ ThrewValidationError
       /\ Inner.class = "UnexpectedFieldError"
       /\ Inner.key \in {FirstUndeclared, Dot(RootPrefix, FirstUndeclared)}
       /\ Inner = UnexpectedFieldError(Inner.key)

\* Two undeclared keys, "z" enumerated before "e": the error names "z".
C3_Witness ==
    /\ Done /\ StrictCall /\ IsPlainObject(input)
    /\ Cardinality(UndeclaredAt(schema, input)) >= 2
    /\ FirstUndeclared = "z"
    /\ ThrewValidationError
    /\ Inner = UnexpectedFieldError("z")

(***************************************************************************)
(* C4  In strict mode the key carried by the unexpected-field error is     *)
(* qualified with the current path prefix: the root key for an undeclared  *)
(* top-level key ("request.body.extra"), the path of the enclosing object  *)
(* field for an undeclared nested key ("u.z").                             *)
(***************************************************************************)
C4_UnexpectedKeyQualified ==
    /\ (Done /\ StrictCall /\ IsPlainObject(input) /\ UndeclaredAt(schema, input) # {})
       => /\ ThrewValidationError
          /\ Inner = UnexpectedFieldError(Dot(RootPrefix, FirstUndeclared))
    /\ \A u \in {schema[1]} :
         ( /\ Done /\ StrictCall /\ IsPlainObject(input)
           /\ UndeclaredAt(schema, input) = {}
           /\ u.spec.type = "Object"
           /\ HasKey(input, u.key)
           /\ IsPlainObject(ValueOf(input, u.key))
           /\ UndeclaredAt(u.spec.schema[1], ValueOf(input, u.key)) # {} )
         => /\ ThrewValidationError
            /\ Inner = UnexpectedFieldError(
                  Dot(Dot(RootPrefix, u.key),
                      ValueOf(input, u.key).keys[Min(UndeclaredAt(u.spec.schema[1], ValueOf(input, u.key)))]))

(***************************************************************************)
(* C5  Nested path composition: a type mismatch on field f inside nested   *)
(* object fields p1, ..., pn is reported with the key path p1.p2. ... .pn.f *)
(* (after the root key, when one is given), with the declared kind and the *)
(* offending value.                                                        *)
(***************************************************************************)
C5_NestedPath ==
    Done => \A f \in FirstFaults :
                (f.kind = "leaf" /\ ~f.viaArray)
                => Wraps(FieldTypeMismatchError(f.key, f.type, f.value))

\* A mismatch two object levels down, with no root key: "user.profile.age".
C5_Witness ==
    /\ Done
    /\ options.rootKey = <<>>
    /\ \E f \in FirstFaults : f.kind = "leaf" /\ ~f.viaArray /\ f.depth = 2
                              /\ f.key = "user.profile.age"
    /\ ThrewValidationError
    /\ Inner.key = "user.profile.age"

(***************************************************************************)
(* C6  Array indexing: the elements of an array field xs are checked in    *)
(* index order, and the error for the lowest-index invalid element i       *)
(* carries the key path xs[i] for a primitive element and xs[i].c for an   *)
(* invalid field c of an object element.                                   *)
(***************************************************************************)
\* The element checks of the walk, in the order they were made.
ElementChecks == SelectSeq(completion.trace, LAMBDA ev : ev.op = "element")

\* The array fields of the call's schema (each schema here has at most one).
ArrayEntries == {i \in 1..Len(schema) : schema[i].spec.type = "Array"}

C6_ArrayIndexing ==
    Done =>
      /\ \A f \in FirstFaults :
            (f.kind = "leaf" /\ f.viaArray)
            => Wraps(FieldTypeMismatchError(f.key, f.type, f.value))
      /\ \A i \in ArrayEntries : \A n \in 1..Len(ElementChecks) :
            ElementChecks[n].key = Indexed(Dot(RootPrefix, schema[i].key), n - 1)

\* Element 0 is in order and element 1 is not: a primitive reported as
\* xs[1], and a field of an object element reported as b[1].c.
C6_Witness ==
    /\ Done
    /\ Len(ElementChecks) = 2
    /\ \E f \in FirstFaults : /\ f.kind = "leaf" /\ f.viaArray
                              /\ f.key \in {Dot(RootPrefix, "xs[1]"), Dot(RootPrefix, "b[1].c")}
                              /\ Wraps(FieldTypeMismatchError(f.key, f.type, f.value))

(***************************************************************************)
(* C7  RootKey prefixing: validate with rootKey R accepts exactly the      *)
(* inputs it accepts without a rootKey, and every type-mismatch key path   *)
(* it reports is R, a dot, and the key path reported for the same call     *)
(* without rootKey.                                                        *)
(***************************************************************************)
\* The same call without a rootKey.
WithoutRootKey == _checkObject(input, schema, <<validateFinalOptions(options).strict>>, <<>>)

PrefixedLikeWithout(R) ==
    LET w == WithoutRootKey
    IN /\ (outcome.status = "returned") <=> (w.thrown = <<>>)
       /\ (ThrewValidationError /\ Inner.class = "FieldTypeMismatchError")
          => /\ w.thrown # <<>>
             /\ Inner = FieldTypeMismatchError(R \o "." \o w.thrown[1].key,
                                               w.thrown[1].type, w.thrown[1].value)

\* As claimed: for every rootKey R.
C7_RootKeyPrefix_AnyR ==
    (Done /\ options.rootKey # <<>>) => PrefixedLikeWithout(options.rootKey[1])

\* As amended: for every non-empty rootKey R.
C7_RootKeyPrefix ==
    (Done /\ options.rootKey # <<>> /\ options.rootKey[1] # "") => PrefixedLikeWithout(options.rootKey[1])

\* A mismatch inside an array element of a nested path, reported under the
\* root key "request.body".
C7_Witness ==
    /\ Done
    /\ options.rootKey = <<"request.body">>
    /\ ThrewValidationError
    /\ Inner.class = "FieldTypeMismatchError"
    /\ Inner.key \in {"request.body.user.profile.age", "request.body.b[1].c"}

(***************************************************************************)
(* C8  Wrapping: every classified error raised at any depth of the walk    *)
(* reaches the caller as one ValidationError whose inner error is that     *)
(* classified error itself; the inner error is never a ValidationError.    *)
(***************************************************************************)
Classified == {"FieldTypeMismatchError", "FieldNonNullableError", "UnexpectedFieldError"}

C8_WrappedOnce ==
    /\ (Done /\ completion.thrown # <<>> /\ completion.thrown[1].class \in Classified)
       => /\ outcome.status = "thrown"
          /\ outcome.thrown[1].class = "ValidationError"
          /\ outcome.thrown[1].error = <<completion.thrown[1]>>
    /\ ThrewValidationError
       => /\ Inner.class \in Classified
          /\ Inner.error = <<>>

\* An unexpected-field error and a type mismatch raised below the top level
\* both reached the caller wrapped.
C8_Witness ==
    /\ Done
    /\ ThrewValidationError
    /\ Len(Steps) >= 3
    /\ Inner.class \in {"UnexpectedFieldError", "FieldTypeMismatchError"}
    /\ Inner = completion.thrown[1]

(***************************************************************************)
(* C9  The error taxonomy is exhaustive for data failures: for a           *)
(* well-formed schema with no custom fields, every validate call, for any  *)
(* input value and either strict setting, either returns or throws a       *)
(* ValidationError wrapping a type-mismatch or unexpected-field error.     *)
(***************************************************************************)
C9_TaxonomyExhaustive ==
    (Done /\ PlainSchema(schema)) => \/ outcome.status = "returned"
            \/ /\ ThrewValidationError
               /\ Inner.class \in {"FieldTypeMismatchError", "UnexpectedFieldError"}

(***************************************************************************)
(* C10  Object field kind check: when the input value of an object field   *)
(* is not an object (an array, null or a primitive), validate fails with a *)
(* type-mismatch error whose key is that field's own path and whose        *)
(* declared kind is Object; the nested schema is not walked.               *)
(***************************************************************************)
C10_ObjectKind ==
    Done => \A f \in FirstFaults :
                f.kind = "objectKind"
                => /\ Wraps(FieldTypeMismatchError(f.key, "Object", f.value))
                   /\ Steps[Len(Steps)].key = f.key

(***************************************************************************)
(* Custom fields, read off the resolver and the value alone.               *)
(***************************************************************************)
\* The resolver returns the very value v it received.
ResolverKeeps(resolver, v) ==
    CASE resolver = "identity"  -> TRUE
      [] resolver = "isEven"    -> v.t = "number" /\ v.n % 2 = 0
      [] resolver = "constTrue" -> v = Bool(TRUE)
      [] resolver = "clone"     -> v.t \notin {"object", "array"}
      [] OTHER                  -> FALSE

\* The resolver calls of the walk, in the order they were made.
ResolverCalls == SelectSeq(completion.trace, LAMBDA ev : ev.op = "resolver")

\* The call's schema is one array field whose elements are custom fields,
\* and the input holds an array under its key (with no key that strict mode
\* refuses).
CustomArrayCall ==
    /\ Len(schema) = 1
    /\ schema[1].spec.type = "Array"
    /\ schema[1].spec.field # <<>>
    /\ schema[1].spec.field[1].type = "Custom"
    /\ IsPlainObject(input)
    /\ HasKey(input, schema[1].key)
    /\ ValueOf(input, schema[1].key).t = "array"
    /\ ~(StrictCall /\ UndeclaredAt(schema, input) # {})

(***************************************************************************)
(* C11  Arrays of custom fields: for an array field whose element          *)
(* specification is a custom field, validate calls the resolver on every   *)
(* element in index order with the key path key[index], and accepts the    *)
(* array when every resolver call returns the element it received.         *)
(***************************************************************************)
C11_CustomArrays ==
    (Done /\ CustomArrayCall)
    => LET xs == ValueOf(input, schema[1].key).items
           r == schema[1].spec.field[1].resolver
       IN (\A i \in 1..Len(xs) : ResolverKeeps(r, xs[i]))
          => /\ outcome = Returned(input)
             /\ Len(ResolverCalls) = Len(xs)
             /\ \A i \in 1..Len(xs) :
                   ResolverCalls[i] = Ev("resolver",
                                         Indexed(Dot(RootPrefix, schema[1].key), i - 1), xs[i])

(***************************************************************************)
(* Optional fields.                                                        *)
(***************************************************************************)
\* Schema s without its optional fields whose key object v does not hold,
\* nested schemas (under the objects v holds) included.
RECURSIVE WithoutMissingOptional(_, _)
WithoutMissingOptional(s, v) ==
    LET kept == SelectSeq(s, LAMBDA e : ~(e.spec.fieldOptions.optional /\ ~HasKey(v, e.key)))
    IN [i \in 1..Len(kept) |->
          IF /\ kept[i].spec.type = "Object" /\ kept[i].spec.schema # <<>>
             /\ HasKey(v, kept[i].key) /\ IsPlainObject(ValueOf(v, kept[i].key))
          THEN Entry(kept[i].key,
                     [kept[i].spec EXCEPT !.schema =
                         <<WithoutMissingOptional(kept[i].spec.schema[1], ValueOf(v, kept[i].key))>>])
          ELSE kept[i]]

\* The optional fields of the top level whose key the input does not hold.
MissingOptional ==
    {i \in 1..Len(schema) : schema[i].spec.fieldOptions.optional /\ ~HasKey(input, schema[i].key)}

\* The try body of the same call with the schema s in place of the call's.
WithSchema(s) ==
    _checkObject(input, s, <<validateFinalOptions(options).strict>>, validateFinalOptions(options).rootKey)

(***************************************************************************)
(* C12  Optional skip: a field marked optional whose key is missing from   *)
(* the input object is skipped entirely: the call ends as it does for the  *)
(* schema without that field (same return, same error), no error path      *)
(* names the field, and (strict mode included) no unexpected-field error   *)
(* is raised for it.                                                       *)
(***************************************************************************)
C12_OptionalSkip ==
    Done =>
      /\ LET c == WithSchema(WithoutMissingOptional(schema, input))
         IN c.thrown = completion.thrown /\ c.ret = completion.ret
      /\ \A i \in MissingOptional :
            (outcome.status = "thrown" /\ outcome.thrown[1].class = "ValidationError")
            => /\ ~Names(Inner.key, Dot(RootPrefix, schema[i].key))
               /\ Inner.key # schema[i].key

\* In strict mode an optional field is missing at the top level or in a
\* nested object, and the call returns the input.
C12_Witness ==
    /\ Done /\ StrictCall
    /\ IsPlainObject(input)
    /\ WithoutMissingOptional(schema, input) # schema
    /\ outcome = Returned(input)

\* Object v without the keys of its optional fields (by schema s) whose value
\* is one of markers, nested objects included.
RECURSIVE WithoutMarked(_, _, _)
WithoutMarked(s, v, markers) ==
    IF ~IsPlainObject(v) THEN v
    ELSE LET specOf(k) == s[CHOOSE i \in 1..Len(s) : s[i].key = k].spec
             keep == {i \in 1..Len(v.keys) :
                         ~(/\ Declares(s, v.keys[i])
                           /\ specOf(v.keys[i]).fieldOptions.optional
                           /\ v.items[i] \in markers)}
             pos == SelectSeq([i \in 1..Len(v.keys) |-> i], LAMBDA i : i \in keep)
             inner(i) == IF /\ Declares(s, v.keys[i])
                            /\ specOf(v.keys[i]).type = "Object"
                            /\ specOf(v.keys[i]).schema # <<>>
                         THEN WithoutMarked(specOf(v.keys[i]).schema[1], v.items[i], markers)
                         ELSE v.items[i]
         IN Obj([n \in 1..Len(pos) |-> v.keys[pos[n]]], [n \in 1..Len(pos) |-> inner(pos[n])])

\* The try body of the same call on the value v in place of the input.
WithInput(v) ==
    _checkObject(v, schema, <<validateFinalOptions(options).strict>>, validateFinalOptions(options).rootKey)

\* The call ends as it does when the optional fields holding one of markers
\* are left out of the input.
SkippedLikeMissing(markers) ==
    LET c == WithInput(WithoutMarked(schema, input, markers))
    IN /\ c.thrown = completion.thrown
       /\ (c.thrown = <<>>) <=> (outcome.status = "returned")

\* The schema s with its optional fields that hold null in v made required.
RequiringNulls(s, v) ==
    [i \in 1..Len(s) |->
        IF s[i].spec.fieldOptions.optional /\ HasKey(v, s[i].key) /\ ValueOf(v, s[i].key) = Null
        THEN Entry(s[i].key, [s[i].spec EXCEPT !.fieldOptions = [optional |-> FALSE]])
        ELSE s[i]]

\* The optional fields of the top level that the input holds with value x.
OptionalHolding(x) ==
    {i \in 1..Len(schema) : /\ schema[i].spec.fieldOptions.optional
                            /\ IsPlainObject(input)
                            /\ HasKey(input, schema[i].key)
                            /\ ValueOf(input, schema[i].key) = x}

(***************************************************************************)
(* C13  Optional skip covers the absence marker: an optional field whose   *)
(* key is present but whose value is null or undefined is skipped like a   *)
(* missing key, with no further checks and no error, for every field kind. *)
(***************************************************************************)
C13_AbsenceMarkerSkipped ==
    Done => SkippedLikeMissing({Null, Undefined})

(***************************************************************************)
(* C13 as amended: an optional field whose key is present with the value   *)
(* undefined is skipped like a missing key, for every field kind; a null   *)
(* value is not skipped: the field is checked as a required field holding  *)
(* null is.                                                                *)
(***************************************************************************)
C13_UndefinedSkipped ==
    Done => /\ SkippedLikeMissing({Undefined})
            /\ \A i \in OptionalHolding(Undefined) :
                  ThrewValidationError => ~Names(Inner.key, Dot(RootPrefix, schema[i].key))
            /\ LET c == WithSchema(RequiringNulls(schema, input))
               IN c.thrown = completion.thrown /\ c.ret = completion.ret

\* In strict mode an optional object field held as undefined was skipped and
\* the call returned the input.
C13_Witness ==
    /\ Done /\ StrictCall
    /\ \E i \in OptionalHolding(Undefined) : schema[i].spec.type = "Object"
    /\ outcome = Returned(input)

(***************************************************************************)
(* C14  Missing required field: when a required primitive, object or array *)
(* field is absent from the input (and is the first fault of the walk),    *)
(* validate fails with a ValidationError wrapping a FieldTypeMismatchError  *)
(* whose key is that field's qualified path and whose value is undefined;  *)
(* the engine never raises a FieldNonNullableError.                        *)
(***************************************************************************)
C14_MissingRequired ==
    Done =>
      /\ \A f \in FirstFaults :
            f.value = Undefined
            => Wraps(FieldTypeMismatchError(f.key, f.type, Undefined))
      /\ completion.thrown # <<>> => completion.thrown[1].class # "FieldNonNullableError"
      /\ ThrewValidationError => Inner.class # "FieldNonNullableError"

\* A required array field, and a required field of a nested object, were
\* missing and reported as a type mismatch on undefined.
C14_Witness ==
    /\ Done
    /\ \E f \in FirstFaults :
          /\ f.value = Undefined
          /\ f.kind = "arrayKind" \/ f.depth >= 1
          /\ ~HasKey(input, schema[1].key) \/ f.depth >= 1
          /\ Wraps(FieldTypeMismatchError(f.key, f.type, Undefined))

(***************************************************************************)
(* Primitive fields.                                                       *)
(***************************************************************************)
\* The runtime type a primitive kind asks for.
TagOf(type) ==
    CASE type = "String" -> "string"
      [] type = "Number" -> "number"
      [] type = "Bool"   -> "boolean"

\* Every primitive field of spec (resp. schema s) that the walk of x (resp.
\* v) comes to holds a value of exactly the declared runtime type; an
\* optional field holding undefined, or held by nothing, is not come to.
RECURSIVE ExactInSpec(_, _)
RECURSIVE ExactInSchema(_, _)
ExactInSpec(spec, x) ==
    CASE spec.type \in {"String", "Number", "Bool"} -> x.t = TagOf(spec.type)
      [] spec.type = "Object" /\ spec.schema # <<>> -> ExactInSchema(spec.schema[1], x)
      [] spec.type = "Array" /\ spec.field # <<>> ->
            x.t = "array" => \A j \in 1..Len(x.items) : ExactInSpec(spec.field[1], x.items[j])
      [] OTHER -> TRUE

ExactInSchema(s, v) ==
    \A i \in 1..Len(s) :
        LET x == IF v.t = "object" THEN HeldOrUndefined(v, s[i].key) ELSE Undefined
        IN (s[i].spec.fieldOptions.optional /\ x = Undefined) \/ ExactInSpec(s[i].spec, x)

(***************************************************************************)
(* C15  Primitive exactness: a primitive field accepts a value only when   *)
(* its runtime type is exactly the declared one (string for String, number *)
(* for Number, boolean for Bool), with no coercion; any other value (the   *)
(* first fault of the walk) fails with a type-mismatch error carrying the  *)
(* field's key path, the declared kind and the offending value.            *)
(***************************************************************************)
C15_PrimitiveExact ==
    Done =>
      /\ outcome.status = "returned" => ExactInSchema(schema, input)
      /\ \A f \in FirstFaults :
            f.kind = "leaf" => Wraps(FieldTypeMismatchError(f.key, f.type, f.value))

\* The number 1 given for a Bool field was refused with the field's path,
\* kind and value.
C15_Witness ==
    /\ Done
    /\ \E f \in FirstFaults :
          /\ f.kind = "leaf"
          /\ f.type = "Bool" /\ f.value = Num(1)
          /\ Wraps(FieldTypeMismatchError(f.key, "Bool", Num(1)))

(***************************************************************************)
(* Custom fields at the top level of the call's schema.                    *)
(***************************************************************************)
\* The resolver throws on the value v.
ResolverThrows(resolver, v) ==
    CASE resolver = "isEven"        -> ~(v.t = "number" /\ v.n % 2 = 0)
      [] resolver = "throwMismatch" -> TRUE
      [] OTHER                      -> FALSE

\* The value the input holds for the i-th field of the schema.
Held(i) == HeldOrUndefined(input, schema[i].key)

\* The walk comes to the resolver of the custom field i of the top level:
\* the input is an object with no key that strict mode refuses, the fields
\* before i are custom fields that were skipped or whose resolver returned
\* its argument, and field i is not skipped.
ComesToResolver(i) ==
    /\ IsPlainObject(input)
    /\ ~(StrictCall /\ UndeclaredAt(schema, input) # {})
    /\ schema[i].spec.type = "Custom"
    /\ schema[i].spec.resolver # ""
    /\ ~(schema[i].spec.fieldOptions.optional /\ Held(i) = Undefined)
    /\ \A k \in 1..(i - 1) :
          /\ schema[k].spec.type = "Custom"
          /\ \/ schema[k].spec.fieldOptions.optional /\ Held(k) = Undefined
             \/ ResolverKeeps(schema[k].spec.resolver, Held(k))

\* The resolver of field i returns, and returns something else than the
\* value it received.
ReturnsAnother(i) ==
    /\ ~ResolverThrows(schema[i].spec.resolver, Held(i))
    /\ ~ResolverKeeps(schema[i].spec.resolver, Held(i))

(***************************************************************************)
(* C16  Custom resolver identity: when a custom field's resolver returns a *)
(* value that is not identical to the value it received, validate throws a *)
(* plain programming error that is not a ValidationError and wraps no      *)
(* classified error.                                                       *)
(***************************************************************************)
C16_ResolverIdentity ==
    \A i \in 1..Len(schema) :
        (Done /\ ComesToResolver(i) /\ ReturnsAnother(i))
        => /\ outcome.status = "thrown"
           /\ outcome.thrown[1].class = "Error"
           /\ outcome.thrown[1].error = <<>>
           /\ outcome.thrown[1] = completion.thrown[1]

\* A resolver returned a copy of the object it received (equal in content,
\* another reference), in the second field of the schema, and the call threw
\* a plain Error.
C16_Witness ==
    /\ Done
    /\ Len(schema) = 2
    /\ ComesToResolver(2) /\ ReturnsAnother(2)
    /\ schema[2].spec.resolver = "clone"
    /\ Held(2).t = "object"
    /\ outcome.status = "thrown"
    /\ outcome.thrown[1].class = "Error"

(***************************************************************************)
(* C17  Resolver errors stay unclassified: any error thrown by a custom    *)
(* field's resolver, whatever its class, reaches the caller of validate as *)
(* thrown, not wrapped in a ValidationError.                               *)
(***************************************************************************)
C17_ResolverErrorsUnwrapped ==
    \A i \in 1..Len(schema) :
        (Done /\ ComesToResolver(i) /\ ResolverThrows(schema[i].spec.resolver, Held(i)))
        => /\ outcome.status = "thrown"
           /\ outcome.thrown[1].class # "ValidationError"
           /\ outcome.thrown[1] = completion.thrown[1]

(***************************************************************************)
(* Malformed schemas.                                                      *)
(***************************************************************************)
\* The members of the enum Type.
Type == {"String", "Number", "Bool", "Object", "Array", "Custom"}

\* An object field with no nested schema, or a field whose kind tag is none
\* of Type.
Malformed(spec) ==
    \/ spec.type = "Object" /\ spec.schema = <<>>
    \/ spec.type \notin Type

\* The walk comes to field i of the top level: the input is an object with
\* no key that strict mode refuses, the fields before i are in order, and
\* field i is not skipped.
ComesToField(i) ==
    /\ IsPlainObject(input)
    /\ ~(StrictCall /\ UndeclaredAt(schema, input) # {})
    /\ ~(schema[i].spec.fieldOptions.optional /\ Held(i) = Undefined)
    /\ \A k \in 1..(i - 1) : FieldInOrder(schema[k], input, StrictCall)

\* Field i is malformed, or is an array of malformed fields holding an
\* array with an element.
MalformedAt(i) ==
    \/ Malformed(schema[i].spec)
    \/ /\ schema[i].spec.type = "Array"
       /\ schema[i].spec.field # <<>>
       /\ Malformed(schema[i].spec.field[1])
       /\ Held(i).t = "array"
       /\ Len(Held(i).items) > 0

(***************************************************************************)
(* C18  Malformed schema is not a data error: a schema with an object      *)
(* field that has no nested schema, or with a field whose kind tag the     *)
(* engine does not handle, makes validate throw a plain programming error  *)
(* that is not wrapped in a ValidationError, whenever that field is        *)
(* reached.                                                                *)
(***************************************************************************)
C18_MalformedSchema ==
    \A i \in 1..Len(schema) :
        (Done /\ ComesToField(i) /\ MalformedAt(i))
        => /\ outcome.status = "thrown"
           /\ outcome.thrown[1].class = "Error"
           /\ outcome.thrown[1].error = <<>>
           /\ outcome.thrown[1] = completion.thrown[1]

\* An object field without nested schema, declared second and holding an
\* object, was reached in strict mode and the call threw a plain Error.
C18_Witness ==
    /\ Done /\ StrictCall
    /\ Len(schema) = 2
    /\ ComesToField(2) /\ Malformed(schema[2].spec)
    /\ schema[2].spec.type = "Object"
    /\ Held(2).t = "object"
    /\ outcome.status = "thrown"
    /\ outcome.thrown[1].class = "Error"

(***************************************************************************)
(* C19  Idempotence: when validate(schema, value, options) succeeds with   *)
(* result r, validate(schema, r, options) also succeeds and returns a      *)
(* value identical to r.                                                   *)
(***************************************************************************)
C19_Idempotent ==
    (Done /\ outcome.status = "returned")
    => LET c == WithInput(outcome.ret)
       IN /\ c.thrown = <<>>
          /\ c.ret = outcome.ret
          /\ c.post = outcome.ret

\* A call returned a value holding an array with elements (the slots the
\* engine writes back).
C19_Witness ==
    /\ Done
    /\ outcome.status = "returned"
    /\ HoldsArray(outcome.ret)
    /\ WithInput(outcome.ret).thrown = <<>>

(***************************************************************************)
(* Undeclared keys.                                                        *)
(***************************************************************************)
\* Value x (resp. object v) without the keys its specification (resp. the
\* schema s) does not declare, at every nesting level.
RECURSIVE DeclaredOnlySpec(_, _)
RECURSIVE DeclaredOnly(_, _)
DeclaredOnlySpec(spec, x) ==
    CASE spec.type = "Object" /\ spec.schema # <<>> -> DeclaredOnly(spec.schema[1], x)
      [] spec.type = "Array" /\ spec.field # <<>> /\ x.t = "array" ->
            Arr([j \in 1..Len(x.items) |-> DeclaredOnlySpec(spec.field[1], x.items[j])])
      [] OTHER -> x

DeclaredOnly(s, v) ==
    IF ~IsPlainObject(v) THEN v
    ELSE LET specOf(k) == s[CHOOSE i \in 1..Len(s) : s[i].key = k].spec
             pos == SelectSeq([i \in 1..Len(v.keys) |-> i], LAMBDA i : Declares(s, v.keys[i]))
         IN Obj([n \in 1..Len(pos) |-> v.keys[pos[n]]],
                [n \in 1..Len(pos) |-> DeclaredOnlySpec(specOf(v.keys[pos[n]]), v.items[pos[n]])])

(***************************************************************************)
(* C20  Non-strict mode (strict false, omitted, or options omitted): input *)
(* keys that the schema does not declare, at any nesting level, never      *)
(* cause an error (the call ends as it does for the input without them),   *)
(* and on success they are still present in the returned value, which is   *)
(* the input object itself.                                                *)
(***************************************************************************)
C20_NonStrictKeepsExtras ==
    (Done /\ ~StrictCall)
    => /\ WithInput(DeclaredOnly(schema, input)).thrown = completion.thrown
       /\ completion.thrown # <<>> => completion.thrown[1].class # "UnexpectedFieldError"
       /\ outcome.status = "returned" => /\ outcome.ret = input
                                         /\ heap = input

\* With strict omitted, an input with undeclared keys at the top level and
\* in a nested object was returned as it is.
C20_Witness ==
    /\ Done
    /\ options.strict = <<>>
    /\ IsPlainObject(input)
    /\ UndeclaredAt(schema, input) # {}
    /\ \E i \in 1..Len(input.items) : /\ input.items[i].t = "object"
                                      /\ \E j \in 1..Len(input.items[i].keys) :
                                            input.items[i].keys[j] = "z"
    /\ outcome = Returned(input)

(***************************************************************************)
(* C21  Input preservation: validate never adds, removes or changes a key  *)
(* of any object in the input; its only writes are to array slots, each of *)
(* which receives the value it already held, so after any call, whether it *)
(* returns or throws part-way through an array, the input is deep-equal to *)
(* what it was before the call.                                            *)
(***************************************************************************)
C21_InputPreserved ==
    /\ heap = input
    /\ pc \in {"tried", "catch", "done"} => completion.post = input
    /\ Done /\ outcome.status = "returned" => outcome.ret = input

\* The call threw at the second element of an array, after the write to its
\* first slot, and the input is as it was.
C21_Witness ==
    /\ Done
    /\ outcome.status = "thrown"
    /\ Len(ElementChecks) = 2
    /\ heap = input

ValidateOutcome(s, v, o) ==
    LET c == _checkObject(v, s, <<validateFinalOptions(o).strict>>, validateFinalOptions(o).rootKey)
    IN IF c.thrown = <<>> THEN Returned(c.ret)
       ELSE IF isFieldValidationError(c.thrown[1]) THEN Thrown(ValidationError(c.thrown[1]))
       ELSE Thrown(c.thrown[1])

\* The logged calls made through the instance.
InstanceCalls == {i \in 1..Len(log) : log[i].call.how = "instance"}

(***************************************************************************)
(* C23  Validator handle equivalence: for every schema, value and options, *)
(* new Validator(schema).validate(value, options) has the same outcome as  *)
(* Validator.validate(schema, value, options): the same returned value, or *)
(* the same error class, inner error, key and offending value; and this    *)
(* holds for any number of calls on the same handle.                       *)
(***************************************************************************)
C23_HandleEquivalence ==
    /\ \A i \in InstanceCalls :
          log[i].outcome = ValidateOutcome(log[i].call.schema, log[i].call.obj, log[i].call.options)
    /\ \A i, j \in 1..Len(log) :
          ( /\ log[i].call.how = "instance" /\ log[j].call.how = "static"
            /\ log[i].call.schema = log[j].call.schema
            /\ log[i].call.obj = log[j].call.obj
            /\ log[i].call.options = log[j].call.options )
          => log[i].outcome = log[j].outcome

\* Three calls on the same handle, with options given, of which one returned
\* and one threw a ValidationError.
C23_Witness ==
    /\ Cardinality(InstanceCalls) = 3
    /\ \E i \in InstanceCalls : log[i].outcome.status = "returned"
    /\ \E i \in InstanceCalls : /\ log[i].call.options.strict = <<TRUE>>
                                /\ log[i].outcome.status = "thrown"
                                /\ log[i].outcome.thrown[1].class = "ValidationError"

Max(S) == CHOOSE x \in S : \A y \in S : x >= y

\* The number of activations of _objectFieldChecker open after the first n
\* entries of the trace.
RECURSIVE OpenAfter(_, _)
OpenAfter(trace, n) ==
    IF n = 0 THEN 0
    ELSE OpenAfter(trace, n - 1)
            + (CASE trace[n].op = "enter" -> 1 [] trace[n].op = "leave" -> -1 [] OTHER -> 0)

\* The deepest the recursion went.
RecursionDepth(trace) == Max({OpenAfter(trace, n) : n \in 0..Len(trace)})

\* The nesting depth of a schema: 1 for a schema with no object field, one
\* more than its deepest nested schema otherwise (the schema of the elements
\* of an array counts as nested).
RECURSIVE SchemaDepth(_)
NestedSchemas(s) ==
    {s[i].spec.schema[1] : i \in {k \in 1..Len(s) : s[k].spec.type = "Object" /\ s[k].spec.schema # <<>>}}
        \cup {s[i].spec.field[1].schema[1] :
                i \in {k \in 1..Len(s) : /\ s[k].spec.type = "Array" /\ s[k].spec.field # <<>>
                                        /\ s[k].spec.field[1].type = "Object"
                                        /\ s[k].spec.field[1].schema # <<>>}}

SchemaDepth(s) == 1 + Max({0} \cup {SchemaDepth(n) : n \in NestedSchemas(s)})

(***************************************************************************)
(* C25  Termination: for every finite schema and finite input value (with  *)
(* terminating resolvers), validate terminates, either returning or        *)
(* throwing; its recursion depth never exceeds the nesting depth of the    *)
(* schema, and array length adds loop iterations, not recursion depth.     *)
(***************************************************************************)
C25_Terminates ==
    /\ <>(Done /\ outcome.status \in {"returned", "thrown"})
    /\ [](RecursionDepth(completion.trace) <= SchemaDepth(schema))

\* A call on a schema of depth 2 with an array of two object elements has
\* ended, having gone no deeper than 2.
C25_Witness ==
    /\ Done
    /\ SchemaDepth(schema) = 2
    /\ Len(ElementChecks) = 2
    /\ RecursionDepth(completion.trace) = 2

(***************************************************************************)
(* The object levels of a walk, read off the schema and the value alone:   *)
(* the value itself, the objects held by its object fields, the object     *)
(* elements of its array fields, and theirs.  A level is [at, schema, obj, *)
(* depth, viaArray]: the key path of the object, the schema that applies   *)
(* to it, the object, the number of levels above it and whether the path   *)
(* runs through an array element.                                          *)
(***************************************************************************)
RECURSIVE LevelsIn(_, _, _, _, _)
LevelsIn(s, v, path, depth, viaArray) ==
    IF ~IsPlainObject(v) THEN {}
    ELSE {[at |-> path, schema |-> s, obj |-> v, depth |-> depth, viaArray |-> viaArray]}
         \cup UNION {LevelsIn(s[i].spec.schema[1], ValueOf(v, s[i].key), Dot(path, s[i].key),
                              depth + 1, viaArray) :
                       i \in {k \in 1..Len(s) : /\ s[k].spec.type = "Object"
                                                /\ s[k].spec.schema # <<>>
                                                /\ HasKey(v, s[k].key)}}
         \cup UNION {LET xs == ValueOf(v, s[i].key)
                     IN UNION {LevelsIn(s[i].spec.field[1].schema[1], xs.items[j],
                                        Indexed(Dot(path, s[i].key), j - 1), depth + 1, TRUE) :
                                 j \in 1..Len(xs.items)} :
                       i \in {k \in 1..Len(s) : /\ s[k].spec.type = "Array"
                                                /\ s[k].spec.field # <<>>
                                                /\ s[k].spec.field[1].type = "Object"
                                                /\ s[k].spec.field[1].schema # <<>>
                                                /\ HasKey(v, s[k].key)
                                                /\ ValueOf(v, s[k].key).t = "array"}}

Levels == LevelsIn(schema, input, RootPrefix, 0, FALSE)

\* The positions of the trace at which the walk enters level l.
EntriesOf(l) ==
    {n \in 1..Len(completion.trace) : completion.trace[n] = Ev("enter", l.at, l.obj)}

\* Level l holds an undeclared key and a declared field that is not in order.
UndeclaredAndFaulty(l) ==
    /\ UndeclaredAt(l.schema, l.obj) # {}
    /\ \E i \in 1..Len(l.schema) : ~FieldInOrder(l.schema[i], l.obj, TRUE)

\* After position n the trace holds the strict check and then nothing but
\* exits.
OnlyStrictAfter(n) ==
    /\ n + 1 <= Len(completion.trace)
    /\ completion.trace[n + 1].op = "strict"
    /\ \A k \in (n + 2)..Len(completion.trace) : completion.trace[k].op = "leave"

(***************************************************************************)
(* C26  Strict check precedes field checks at the same level: in strict    *)
(* mode, when an object has both an undeclared key and a declared field    *)
(* that is invalid or missing at the same level, validate reports the      *)
(* unexpected-field error, and no field at that level is checked and no    *)
(* resolver at that level is called.                                       *)
(***************************************************************************)
C26_StrictBeforeFields ==
    (Done /\ StrictCall) =>
        \A l \in Levels : \A n \in EntriesOf(l) :
            UndeclaredAndFaulty(l) =>
                /\ ThrewValidationError
                /\ Inner.class = "UnexpectedFieldError"
                /\ OnlyStrictAfter(n)

\* A strict call reached a nested level that holds an undeclared key and a
\* faulty declared field, after checking a field of the level above, and
\* reported the unexpected field.
C26_Witness ==
    /\ Done
    /\ StrictCall
    /\ \E l \in Levels : /\ l.depth >= 1
                         /\ EntriesOf(l) # {}
                         /\ UndeclaredAndFaulty(l)
    /\ \E k \in 1..Len(Steps) : Steps[k].op = "field"
    /\ ThrewValidationError
    /\ Inner.class = "UnexpectedFieldError"

\* Some level below the top one holds an undeclared key.
UndeclaredBelow == \E l \in Levels : l.depth >= 1 /\ UndeclaredAt(l.schema, l.obj) # {}

(***************************************************************************)
(* C27  Strict mode is inherited by every nested level: in strict mode an  *)
(* undeclared key inside a nested object field, at any depth, or inside an *)
(* object element of an array field, makes validate fail with an           *)
(* unexpected-field error; in non-strict mode the same input is accepted.  *)
(***************************************************************************)
C27_StrictInherited ==
    (Done /\ ConformsSchema(schema, input, FALSE) /\ UndeclaredBelow) =>
        IF StrictCall
        THEN ThrewValidationError /\ Inner.class = "UnexpectedFieldError"
        ELSE outcome = Returned(input)

\* A strict call on an input whose only undeclared key sits in an object
\* element of an array failed with an unexpected-field error.
C27_Witness ==
    /\ Done
    /\ StrictCall
    /\ ConformsSchema(schema, input, FALSE)
    /\ \A l \in Levels : UndeclaredAt(l.schema, l.obj) # {} => l.viaArray
    /\ UndeclaredBelow
    /\ ThrewValidationError
    /\ Inner.class = "UnexpectedFieldError"

(***************************************************************************)
(* C28  Array field kind check: when the value of an array field that is   *)
(* required, or optional and present, is not an array (an object, a        *)
(* primitive, null, or missing when required), validate fails with a       *)
(* type-mismatch error whose key is the array field's own path with no     *)
(* index and whose declared kind is Array, and no element check runs.      *)
(* (A field is present when it holds a value other than undefined.)        *)
(***************************************************************************)
C28_ArrayKind ==
    Done =>
        \A f \in FirstFaults :
            f.kind = "arrayKind" =>
                /\ Wraps(FieldTypeMismatchError(f.key, "Array", f.value))
                /\ \A k \in 1..Len(ElementChecks) : ~Names(ElementChecks[k].key, f.key)

\* An object was given where an optional array field, after a root key, asks
\* for an array, and the call failed at the field's own path.
C28_Witness ==
    /\ Done
    /\ RootPrefix # ""
    /\ \E f \in FirstFaults :
          /\ f.kind = "arrayKind"
          /\ f.value.t = "object"
          /\ \E i \in 1..Len(schema) : schema[i].spec.type = "Array" /\ ~Required(schema[i])
          /\ Wraps(FieldTypeMismatchError(f.key, "Array", f.value))

(***************************************************************************)
(* The resolver calls a walk is due to make, read off the schema and the   *)
(* value alone, for schemas made of custom fields and of object fields     *)
(* over such schemas.                                                      *)
(***************************************************************************)
\* Schema s is made of custom fields with a resolver and of object fields
\* over such schemas; v is an object, with no key that strict mode refuses,
\* that holds an object of this kind for each object field it is to hold.
RECURSIVE Walkable(_, _, _)
Walkable(s, v, strictly) ==
    /\ IsPlainObject(v)
    /\ ~(strictly /\ UndeclaredAt(s, v) # {})
    /\ \A i \in 1..Len(s) :
          \/ s[i].spec.type = "Custom" /\ s[i].spec.resolver # ""
          \/ /\ s[i].spec.type = "Object"
             /\ s[i].spec.schema # <<>>
             /\ \/ s[i].spec.fieldOptions.optional /\ HeldOrUndefined(v, s[i].key) = Undefined
                \/ Walkable(s[i].spec.schema[1], HeldOrUndefined(v, s[i].key), strictly)

\* The resolver calls due for the fields of s from the i-th on, over object
\* v at key path `path`: [calls, ok], the calls in order and whether the
\* walk goes on after them (every resolver called returned its argument).
RECURSIVE DueCalls(_, _, _, _)
DueCalls(s, i, v, path) ==
    IF i > Len(s) THEN [calls |-> <<>>, ok |-> TRUE]
    ELSE LET e == s[i]
             x == HeldOrUndefined(v, e.key)
             k == Dot(path, e.key)
             rest == DueCalls(s, i + 1, v, path)
             here == IF e.spec.type = "Custom"
                     THEN [calls |-> <<Ev("resolver", k, x)>>,
                           ok |-> ResolverKeeps(e.spec.resolver, x)]
                     ELSE DueCalls(e.spec.schema[1], 1, x, k)
         IN IF e.spec.fieldOptions.optional /\ x = Undefined
            THEN rest
            ELSE IF here.ok
            THEN [calls |-> here.calls \o rest.calls, ok |-> rest.ok]
            ELSE here

\* The resolvers named in schema s.
RECURSIVE ResolversOf(_)
ResolversOf(s) ==
    UNION {IF s[i].spec.type = "Custom" THEN {s[i].spec.resolver}
           ELSE IF s[i].spec.type = "Object" /\ s[i].spec.schema # <<>>
           THEN ResolversOf(s[i].spec.schema[1])
           ELSE {} : i \in 1..Len(s)}

(***************************************************************************)
(* C29  Resolver call protocol: a custom field's resolver is called        *)
(* exactly once each time the walk reaches that field, with the field's    *)
(* raw input value and the fully qualified key (rootKey, then the dotted   *)
(* path of enclosing fields, then the field name); it is not called when   *)
(* the field is optional and absent, and for a required custom field       *)
(* missing from the input it is called with undefined while the engine     *)
(* itself raises no classified error.  (Custom fields declared under a key *)
(* of an object level; absent is not held, or held as undefined.)          *)
(***************************************************************************)
C29_ResolverProtocol ==
    (Done /\ Walkable(schema, input, StrictCall)) =>
        /\ ResolverCalls = DueCalls(schema, 1, input, RootPrefix).calls
        /\ "throwMismatch" \notin ResolversOf(schema) => ~ThrewValidationError

\* Under a root key, a nested required custom field missing from the input
\* had its resolver called with undefined and the qualified key, and the
\* nested optional one, absent too, was not called.
C29_Witness ==
    /\ Done
    /\ Walkable(schema, input, StrictCall)
    /\ RootPrefix # ""
    /\ ResolverCalls = <<Ev("resolver", Dot(Dot(RootPrefix, "c"), "customField"), Undefined)>>
    /\ outcome.status = "returned"

(***************************************************************************)
(* The first violation of a depth-first walk, read off the schema and the  *)
(* value alone: at an object level the strict check comes first, then the  *)
(* fields in declaration order, each followed into its nested object or,   *)
(* index by index, into its elements.  A violation is [class, key, type,   *)
(* value, name]: for a type mismatch the key path, the declared kind and   *)
(* the offending value; for an unexpected field the key path of the        *)
(* undeclared key and its bare name.                                       *)
(***************************************************************************)
Mismatch(key, type, value) ==
    [class |-> "FieldTypeMismatchError", key |-> key, type |-> type, value |-> value, name |-> ""]

Unexpected(key, name) ==
    [class |-> "UnexpectedFieldError", key |-> key, type |-> "", value |-> Undefined, name |-> name]

RECURSIVE ViolationsInFields(_, _, _, _, _)
RECURSIVE ViolationsInValue(_, _, _, _)
RECURSIVE ViolationsInElements(_, _, _, _, _)

\* The first violation of object v against schema s at key path `path`.
ViolationsInLevel(s, v, path, strictly) ==
    IF strictly /\ UndeclaredAt(s, v) # {}
    THEN LET name == v.keys[Min(UndeclaredAt(s, v))]
         IN {Unexpected(Dot(path, name), name)}
    ELSE ViolationsInFields(s, 1, v, path, strictly)

\* The first violation among the fields of s from the i-th on.
ViolationsInFields(s, i, v, path, strictly) ==
    IF i > Len(s) THEN {}
    ELSE LET x == HeldOrUndefined(v, s[i].key)
             here == IF s[i].spec.fieldOptions.optional /\ x = Undefined
                     THEN {}
                     ELSE ViolationsInValue(s[i].spec, x, Dot(path, s[i].key), strictly)
         IN IF here # {} THEN here ELSE ViolationsInFields(s, i + 1, v, path, strictly)

\* The first violation of value x against specification spec.
ViolationsInValue(spec, x, path, strictly) ==
    CASE spec.type = "String" -> IF x.t = "string" THEN {} ELSE {Mismatch(path, "String", x)}
      [] spec.type = "Number" -> IF x.t = "number" THEN {} ELSE {Mismatch(path, "Number", x)}
      [] spec.type = "Bool"   -> IF x.t = "boolean" THEN {} ELSE {Mismatch(path, "Bool", x)}
      [] spec.type = "Object" ->
            IF IsPlainObject(x)
            THEN ViolationsInLevel(spec.schema[1], x, path, strictly)
            ELSE {Mismatch(path, "Object", x)}
      [] spec.type = "Array" ->
            IF x.t = "array"
            THEN ViolationsInElements(spec.field[1], x.items, 1, path, strictly)
            ELSE {Mismatch(path, "Array", x)}
      [] OTHER -> {}

\* The first violation among the elements xs from the j-th on.
ViolationsInElements(spec, xs, j, path, strictly) ==
    IF j > Len(xs) THEN {}
    ELSE LET here == ViolationsInValue(spec, xs[j], Indexed(path, j - 1), strictly)
         IN IF here # {} THEN here ELSE ViolationsInElements(spec, xs, j + 1, path, strictly)

\* The violation v is the one that reached the caller (an unexpected key
\* under its path or under its bare name).
Reported(v) ==
    IF v.class = "FieldTypeMismatchError"
    THEN Wraps(FieldTypeMismatchError(v.key, v.type, v.value))
    ELSE Wraps(UnexpectedFieldError(v.key)) \/ Wraps(UnexpectedFieldError(v.name))

\* Every object field of schema s, at any depth, for which object v holds a
\* value holds a plain object or a primitive (neither null nor an array).
RECURSIVE NoNullOrArrayForObject(_, _)
NoNullOrArrayForObjectSpec(spec, x) ==
    CASE spec.type = "Object" ->
            /\ x \notin {Null} /\ x.t # "array"
            /\ IsPlainObject(x) => NoNullOrArrayForObject(spec.schema[1], x)
      [] spec.type = "Array" /\ spec.field[1].type = "Object" ->
            x.t = "array" =>
                \A j \in 1..Len(x.items) :
                    /\ x.items[j] # Null /\ x.items[j].t # "array"
                    /\ IsPlainObject(x.items[j])
                       => NoNullOrArrayForObject(spec.field[1].schema[1], x.items[j])
      [] OTHER -> TRUE

NoNullOrArrayForObject(s, v) ==
    \A i \in 1..Len(s) : NoNullOrArrayForObjectSpec(s[i].spec, HeldOrUndefined(v, s[i].key))

(***************************************************************************)
(* C30  Depth-first error order across levels: the error validate reports  *)
(* is the first violation met in a depth-first walk of the schema in       *)
(* declaration order, where each object level runs its strict check before *)
(* its fields and each array checks its elements in index order; so a      *)
(* violation nested under an earlier-declared field is reported in         *)
(* preference to any violation of a later-declared field of an enclosing   *)
(* level, and a type mismatch in an earlier field is reported before a     *)
(* strict-mode unexpected key inside a later-declared nested object.       *)
(***************************************************************************)
C30_DepthFirstOrder ==
    (Done /\ PlainSchema(schema) /\ IsPlainObject(input)) =>
        \A v \in ViolationsInLevel(schema, input, RootPrefix, StrictCall) : Reported(v)

\* The same order holds on every input whose object fields hold no null and
\* no array: the walk departs from it only where _isObject lets one through.
DepthFirstOrderOnPlainObjects ==
    (Done /\ PlainSchema(schema) /\ IsPlainObject(input)
          /\ NoNullOrArrayForObject(schema, input)) =>
        \A v \in ViolationsInLevel(schema, input, RootPrefix, StrictCall) : Reported(v)

====
